---- MODULE Spec2Model ----
(***************************************************************************)
(* A model of chips/fetch.py: the acquisition of one solar disk image      *)
(* (SolarDisk: local lookup, remote query and download, optional           *)
(* deconvolution, the four calibration stages, the disk geometry) and the  *)
(* registry of disks built per wavelength and resolution (RegisterAIA).    *)
(*                                                                         *)
(* One behaviour is one call by a user: either SolarDisk(...) directly or  *)
(* RegisterAIA(...), which constructs one SolarDisk per pair.  Each action *)
(* is one statement group of the code between two calls into a library     *)
(* (glob, sunpy, aiapy); a library call either returns or raises, and an   *)
(* exception unwinds every frame since the code has no try/except.         *)
(*                                                                         *)
(* Numbers of a FITS header are in tenths of an arcsecond, so that 975.0   *)
(* is 9750 and 0.6 is 6; the quotient of two such numbers is the quotient  *)
(* of the values they stand for.                                           *)
(*                                                                         *)
(* SynopticMap (the rotation of a date, the names of the local file and of *)
(* the remote one, the download, the repair of the units of the header) is *)
(* modelled by calls of its own, made one after the other (SpecSynoptic)   *)
(* or at the same time on one home directory (SpecParallel).  A synoptic   *)
(* date is a number of tenths of a rotation since the start of rotation 1, *)
(* so that the rotation count 2285.1 is the date 22841.                    *)
(***************************************************************************)
EXTENDS Integers, Sequences, FiniteSets, TLC

VARIABLES
    args,       \* the arguments of the user's call
    storage,    \* the directory listing of ~/sunpy/data, in listing order
    catalog,    \* the remote catalog: one sequence of records per provider
    reg,        \* the RegisterAIA object under construction
    rpc,        \* position in RegisterAIA.__init__
    wi,         \* index of the outer loop (wavelengths)
    ri,         \* index of the inner loop (resolutions)
    disk,       \* the SolarDisk object under construction
    pc,         \* position in SolarDisk.__init__
    locals,     \* local variables of fetch and normalization
    err,        \* the exception that ended the call, if any
    returned,   \* what the user's call gave back
    calls,      \* the library calls made for the current disk, in order
    queries,    \* the catalog queries made for the current disk, in order
    files,      \* ~/sunpy/data/synoptic: the file at each local path
    remote,     \* the files of the remote repository, by url
    sargs,      \* the arguments of each call of SynopticMap(...)
    synoptic,   \* the SynopticMap object of each call
    spc,        \* position of each call in SynopticMap.__init__ and fetch
    req,        \* the response each call got from requests.get
    serr,       \* the exception that ended each call, if any
    steps       \* what each call did to the file system and the network

diskvars == <<args, storage, catalog, reg, rpc, wi, ri, disk, pc, locals, err,
              returned, calls, queries>>

synvars == <<files, remote, sargs, synoptic, spc, req, serr, steps>>

vars == <<args, storage, catalog, reg, rpc, wi, ri, disk, pc, locals, err,
          returned, calls, queries, synvars>>

---------------------------------------------------------------------------
(* Bounds of the model: the lengths of the lists handed to RegisterAIA.    *)
MaxWavelengths == 2
MaxResolutions == 2

(* Bound of the model: the calls of SynopticMap(...) in one behaviour.     *)
MaxMaps == 2

(* Constants of the program.                                               *)
DefaultResolution == 4096
WindowSeconds == 60
SecondsPerDay == 86400
StatusOK == 200

(* The unit of time of a synoptic date: a Carrington rotation lasts 10 of  *)
(* them, and time 0 is the start of rotation 1.                            *)
RotationParts == 10

WavelengthOrder == <<171, 193, 211>>
ResolutionOrder == <<1024, 4096, 0>>

Range(s) == {s[i] : i \in DOMAIN s}
Prefix(s, n) == SubSeq(s, 1, n)
Put(m, k, v) == (k :> v) @@ m
EmptyMap == [k \in {} |-> 0]

---------------------------------------------------------------------------
(* FITS headers, files and catalog records.                                *)

Hdr(cdelt2, rsun_obs, r_sun) ==
    ("cdelt2" :> cdelt2) @@ ("rsun_obs" :> rsun_obs) @@ ("r_sun" :> r_sun)

HdrExact == Hdr(6, 9750, 16250)
HdrFrac == Hdr(6, 9760, 16266)
HdrHalf == Hdr(12, 9750, 8125)
HdrZeroScale == Hdr(0, 9750, 16250)
HdrNoRSun == ("cdelt2" :> 6) @@ ("rsun_obs" :> 9750)
HdrNoScale == ("rsun_obs" :> 9750) @@ ("r_sun" :> 16250)
HdrNoRadius == ("cdelt2" :> 6) @@ ("r_sun" :> 16250)

(* A level-1 file, local or remote: its name holds the instrument, the     *)
(* wavelength, the day and the second of the observation.                  *)
Rec(instrument, wavelength, day, sec, hdr) ==
    [instrument |-> instrument, wavelength |-> wavelength, day |-> day,
     sec |-> sec, hdr |-> hdr]

NoRec == Rec("", 0, 0, 0, EmptyMap)

Image(file, ops) == [file |-> file, hdr |-> file.hdr, ops |-> ops]
NoImage == Image(NoRec, <<>>)

(* A library transformation of an image: a new object, the header carried  *)
(* over, the operation recorded.                                           *)
Apply(op, img) == [img EXCEPT !.ops = Append(img.ops, op)]

Time(day, sec, us) == [day |-> day, sec |-> sec, us |-> us]

TimeLE(a, b) ==
    \/ a.day < b.day
    \/ a.day = b.day /\ a.sec < b.sec
    \/ a.day = b.day /\ a.sec = b.sec /\ a.us <= b.us

Dates ==
    {Time(0, 43200, 0), Time(0, 43200, 500000), Time(0, 86370, 0),
     Time(1, 0, 0)}

(* Values of cdelt2 and of rsun_obs for a grid of headers.                 *)
ScaleValues == {5, 6, 12}
RadiusValues == {9440, 9757, 9759}

(* Listings of one file each, one per header of the grid.                  *)
GridStorages ==
    {<<Rec("AIA", 193, 0, 43200, Hdr(c, r, 16250))>> :
         c \in ScaleValues, r \in RadiusValues}

Storages == GridStorages \cup {
    <<>>,
    <<Rec("HMI", 171, 0, 43210, HdrExact), Rec("AIA", 193, 0, 43210, HdrFrac)>>,
    <<Rec("AIA", 171, 1, 5, HdrExact), Rec("AIA", 171, 0, 100, HdrNoRSun),
      Rec("AIA", 171, 0, 50, HdrExact)>>,
    <<Rec("AIA", 193, 0, 43205, HdrNoRadius),
      Rec("AIA", 171, 0, 43200, HdrExact),
      Rec("AIA", 211, 0, 43200, HdrFrac)>>
}

Catalogs == {
    <<>>,
    << <<Rec("EUVI", 193, 0, 43200, HdrExact),
         Rec("AIA", 171, 0, 43212, HdrHalf),
         Rec("AIA", 193, 0, 43200, HdrFrac),
         Rec("AIA", 193, 0, 43224, HdrExact),
         Rec("AIA", 171, 1, 5, HdrZeroScale),
         Rec("AIA", 211, 0, 43215, HdrExact)>> >>,
    << <<Rec("AIA", 171, 0, 43290, HdrExact),
         Rec("AIA", 193, 0, 43236, HdrNoScale),
         Rec("AIA", 193, 0, 43212, HdrExact)>>,
       <<Rec("AIA", 193, 0, 43201, HdrExact),
         Rec("AIA", 171, 0, 43202, HdrExact)>> >>
}

---------------------------------------------------------------------------
(* Synoptic maps: headers, files, the remote repository.                   *)

MapCalls == 1..MaxMaps

None == <<>>

(* The header cards of a synoptic file; a card that is absent is no key.   *)
HdrDegrees ==
    ("cunit1" :> "deg") @@ ("cunit2" :> "deg") @@ ("ctype1" :> "CRLN-CEA")
HdrNoUnits == ("ctype1" :> "CRLN-CEA")
HdrMixedUnits ==
    ("cunit1" :> "arcsec") @@ ("cunit2" :> "Degree")
        @@ ("ctype1" :> "CRLN-CEA")

(* A file of the local directory: whole once every byte is written.        *)
File(content, whole) == [content |-> content, whole |-> whole]

(* file_name_regex.format(wavelength, CR) and base_url_regex.format(...):  *)
(* a name that holds the two numbers.                                      *)
file_name_regex_format(wavelength, cr) ==
    [name |-> "AIA0{:04d}_CR{:04d}.fits", wavelength |-> wavelength,
     rotation |-> cr]

base_url_regex_format(wavelength, cr) ==
    [name |-> "https://sdo.gsfc.nasa.gov/assets/img/synoptic/AIA{:04d}/CR{:04d}.fits",
     wavelength |-> wavelength, rotation |-> cr]

(* self.local_file_dir + "/" + self.fname                                  *)
local_file_of(location, fname) == [dir |-> location, fname |-> fname]

DefaultLocation == "sunpy/data/synoptic/"

(* Times at rotation counts 2285.1 and 2287.0; the rotations a user may    *)
(* hand over, None for none.                                               *)
SynopticDates == {22841, 22860}
Rotations == {None, <<0>>, <<2287>>}
SynopticWavelengths == {193, 211}

Remotes == {
    (base_url_regex_format(193, 2286) :> HdrDegrees)
        @@ (base_url_regex_format(193, 2287) :> HdrNoUnits)
        @@ (base_url_regex_format(211, 2286) :> HdrMixedUnits),
    (base_url_regex_format(193, 2286) :> HdrNoUnits)
        @@ (base_url_regex_format(211, 2287) :> HdrDegrees)
}

SynopticDirs == {
    EmptyMap,
    (local_file_of(DefaultLocation, file_name_regex_format(193, 2286))
         :> File([fits |-> TRUE, hdr |-> HdrMixedUnits], TRUE))
}

NoSArgs == [date |-> 0, CR_equivalance |-> None, wavelength |-> 0]

NoRaw == [hdr |-> EmptyMap]

NoSynoptic ==
    [date |-> 0, wavelength |-> 0, location |-> "", CR_equivalance |-> 0,
     fname |-> file_name_regex_format(0, 0),
     remote_file_url |-> base_url_regex_format(0, 0),
     local_file |-> local_file_of("", file_name_regex_format(0, 0)),
     raw |-> NoRaw, has |-> {}]

NoReq ==
    [status_code |-> 0, content |-> [fits |-> FALSE, hdr |-> EmptyMap]]

---------------------------------------------------------------------------
(* The user's call.                                                        *)

DiskArgs ==
    [caller : {"SolarDisk"}, date : Dates,
     wavelengths :
         {<<w>> : w \in Range(Prefix(WavelengthOrder, MaxWavelengths))},
     resolutions : {<<r>> : r \in Range(ResolutionOrder)},
     apply_psf : BOOLEAN, norm : BOOLEAN, use_gpu : BOOLEAN]

RegisterArgs ==
    [caller : {"RegisterAIA"}, date : Dates,
     wavelengths : {Prefix(WavelengthOrder, n) : n \in 1..MaxWavelengths},
     resolutions : {Prefix(ResolutionOrder, n) : n \in 1..MaxResolutions},
     apply_psf : BOOLEAN, norm : BOOLEAN, use_gpu : {TRUE}]

NoDisk ==
    [date |-> Time(0, 0, 0), wavelength |-> 0, resolution |-> 0,
     apply_psf |-> FALSE, norm |-> FALSE, use_gpu |-> FALSE,
     desciption |-> <<Time(0, 0, 0), 0, 0>>,
     raw |-> NoImage, psf |-> NoImage, normalized |-> NoImage,
     rscale |-> 0, r_sun |-> 0, rsun_obs |-> 0, pixel_radius |-> 0,
     has |-> {}]

NoLocals ==
    [local_file |-> <<>>, q |-> <<>>, key |-> "",
     updated_point |-> NoImage, registred |-> NoImage]

NoReg ==
    [wavelengths |-> <<>>, date |-> Time(0, 0, 0), resolutions |-> <<>>,
     apply_psf |-> FALSE, norm |-> FALSE, datasets |-> EmptyMap]

NoErr == [step |-> "", exc |-> ""]

NoArgs ==
    [caller |-> "SynopticMap", date |-> Time(0, 0, 0), wavelengths |-> <<>>,
     resolutions |-> <<>>, apply_psf |-> FALSE, norm |-> FALSE,
     use_gpu |-> FALSE]

(* No call of SynopticMap(...) is made.                                    *)
SynopticIdle ==
    /\ sargs = [p \in MapCalls |-> NoSArgs]
    /\ synoptic = [p \in MapCalls |-> NoSynoptic]
    /\ spc = [p \in MapCalls |-> "idle"]
    /\ req = [p \in MapCalls |-> NoReq]
    /\ serr = [p \in MapCalls |-> NoErr]
    /\ steps = [p \in MapCalls |-> <<>>]

Init ==
    /\ files = EmptyMap
    /\ remote = EmptyMap
    /\ SynopticIdle
    /\ args \in DiskArgs \cup RegisterArgs
    /\ storage \in Storages
    /\ catalog \in Catalogs
    /\ reg = NoReg
    /\ rpc = IF args.caller = "RegisterAIA" THEN "new" ELSE "none"
    /\ wi = 0
    /\ ri = 0
    /\ disk = NoDisk
    /\ pc = "idle"
    /\ locals = NoLocals
    /\ err = NoErr
    /\ returned = "nothing"
    /\ calls = <<>>
    /\ queries = <<>>

(* The state before calls of SynopticMap(...): no disk is built.            *)
InitSynoptic ==
    /\ files \in SynopticDirs
    /\ remote \in Remotes
    /\ SynopticIdle
    /\ args = NoArgs
    /\ storage = <<>>
    /\ catalog = <<>>
    /\ reg = NoReg
    /\ rpc = "none"
    /\ wi = 0
    /\ ri = 0
    /\ disk = NoDisk
    /\ pc = "idle"
    /\ locals = NoLocals
    /\ err = NoErr
    /\ returned = "nothing"
    /\ calls = <<>>
    /\ queries = <<>>

---------------------------------------------------------------------------
(* Conversions of datetime.                                                *)

(* strftime_date, were the format "%Y_%m_%d_%H": the hour is part of it.   *)
strftime_date_hour(date) == date.day * 24 + (date.sec \div 3600)

(* date.strftime("%Y_%m_%d"): the day, nothing of the time of day.         *)
strftime_date(date) == date.day

(* date.strftime("%Y-%m-%dT%H:%M:%S"), read back by attrs.Time: the day    *)
(* and the whole second; the format has no field for the microseconds.     *)
strftime_seconds(date) == Time(date.day, date.sec, 0)

(* date + dt.timedelta(seconds=n).                                         *)
add_seconds(date, n) ==
    Time(date.day + ((date.sec + n) \div SecondsPerDay),
         (date.sec + n) % SecondsPerDay, date.us)

---------------------------------------------------------------------------
(* SolarDisk.                                                              *)

(* Raise, were RegisterAIA.__init__ to catch the exception of a pair and   *)
(* go on with its loop.                                                    *)
Raise_caught(step, exc) ==
    /\ pc' = "raised"
    /\ err' = [step |-> step, exc |-> exc]
    /\ rpc' = IF rpc = "building" THEN "inner" ELSE rpc
    /\ returned' = IF rpc = "building" THEN returned ELSE "exception"

(* An exception leaves SolarDisk.__init__ and, when RegisterAIA.__init__   *)
(* called it, that frame as well: the user's call raises.                  *)
Raise(step, exc) ==
    /\ pc' = "raised"
    /\ err' = [step |-> step, exc |-> exc]
    /\ rpc' = IF rpc = "building" THEN "raised" ELSE rpc
    /\ returned' = "exception"

(* stored_resolution, were the argument stored as it is handed over.       *)
stored_resolution_raw(resolution) == resolution

(* self.resolution = resolution if resolution else 4096; a resolution that *)
(* is None or 0 is the 0 of the model.                                     *)
stored_resolution(resolution) ==
    IF resolution # 0 THEN resolution ELSE DefaultResolution

(* SolarDisk.__init__, lines 65-71, up to the call of fetch.               *)
SolarDisk_init(date, wavelength, resolution, apply_psf, norm, use_gpu) ==
    /\ disk' = [NoDisk EXCEPT
                  !.date = date,
                  !.wavelength = wavelength,
                  !.resolution = stored_resolution(resolution),
                  !.apply_psf = apply_psf,
                  !.norm = norm,
                  !.use_gpu = use_gpu,
                  !.desciption = <<date, wavelength, resolution>>]
    /\ pc' = "search_local"
    /\ locals' = NoLocals
    /\ calls' = <<>>
    /\ queries' = <<>>

(* The user calls SolarDisk(...).                                          *)
SolarDisk_call ==
    /\ args.caller = "SolarDisk"
    /\ pc = "idle"
    /\ SolarDisk_init(args.date, args.wavelengths[1], args.resolutions[1],
                      args.apply_psf, args.norm, args.use_gpu)
    /\ UNCHANGED synvars
    /\ UNCHANGED <<args, storage, catalog, reg, rpc, wi, ri, err, returned>>

(* glob of ~/sunpy/data/aia_lev1_{wavelength}a_{date_str}*.fits            *)
glob_match(file, wavelength, date_str) ==
    /\ file.instrument = "AIA"
    /\ file.wavelength = wavelength
    /\ file.day = date_str

glob(listing, wavelength, date_str) ==
    SelectSeq(listing, LAMBDA f : glob_match(f, wavelength, date_str))

(* local_files[0] if len(local_files) > 0 else None; None is <<>>.         *)
first_or_none(local_files) ==
    IF Len(local_files) > 0 THEN <<local_files[1]>> ELSE <<>>

(* SolarDisk.search_local, called at the head of fetch.                    *)
search_local_result(d) ==
    first_or_none(glob(storage, d.wavelength, strftime_date(d.date)))

(* fetch_branch, were the result of the lookup ignored.                    *)
fetch_branch_remote(local_file) == "Fido_search"

(* if local_file: ... else: ...                                            *)
fetch_branch(local_file) ==
    IF local_file # <<>> THEN "load_local" ELSE "Fido_search"

(* after_fetch, were the test of norm inverted.                            *)
after_fetch_inverted(d) == IF d.norm THEN "done" ELSE "update_pointing"

(* The end of fetch and the test of norm in __init__.                      *)
after_fetch(d) == IF d.norm THEN "update_pointing" ELSE "done"

(* if self.resolution != 4096: pass; if self.apply_psf: ...                *)
after_raw(d) == IF d.apply_psf THEN "deconvolve" ELSE after_fetch(d)

search_local ==
    /\ pc = "search_local"
    /\ locals' = [locals EXCEPT !.local_file = search_local_result(disk)]
    /\ pc' = fetch_branch(locals'.local_file)
    /\ calls' = Append(calls, "search_local")
    /\ UNCHANGED synvars
    /\ UNCHANGED <<args, storage, catalog, reg, rpc, wi, ri, disk, err,
                   returned, queries>>

(* self.raw = sunpy.map.Map(local_file)                                    *)
load_local ==
    /\ pc = "load_local"
    /\ calls' = Append(calls, "load_local")
    /\ \/ /\ disk' = [disk EXCEPT !.raw = Image(locals.local_file[1], <<>>),
                                  !.has = @ \cup {"raw"}]
          /\ pc' = after_raw(disk)
          /\ UNCHANGED <<rpc, err, returned>>
       \/ /\ Raise("load_local", "LibraryError")
          /\ UNCHANGED disk
    /\ UNCHANGED synvars
    /\ UNCHANGED <<args, storage, catalog, reg, wi, ri, locals, queries>>

(* search_query, were the window 60 minutes.                               *)
search_query_minutes(d) ==
    [start |-> strftime_seconds(d.date),
     end |-> strftime_seconds(add_seconds(d.date, WindowSeconds * 60)),
     instrument |-> "AIA",
     wavemin |-> d.wavelength,
     wavemax |-> d.wavelength]

(* The attributes handed to Fido.search, lines 135-145.                    *)
search_query(d) ==
    [start |-> strftime_seconds(d.date),
     end |-> strftime_seconds(add_seconds(d.date, WindowSeconds)),
     instrument |-> "AIA",
     wavemin |-> d.wavelength,
     wavemax |-> d.wavelength]

(* What a catalog answers: per provider, its records that match.           *)
query_match(r, query) ==
    /\ r.instrument = query.instrument
    /\ query.wavemin <= r.wavelength
    /\ r.wavelength <= query.wavemax
    /\ TimeLE(query.start, Time(r.day, r.sec, 0))
    /\ TimeLE(Time(r.day, r.sec, 0), query.end)

Fido_search_result(query) ==
    [p \in 1..Len(catalog) |->
        SelectSeq(catalog[p], LAMBDA r : query_match(r, query))]

(* q = Fido.search(...)                                                    *)
Fido_search ==
    /\ pc = "Fido_search"
    /\ calls' = Append(calls, "Fido_search")
    /\ queries' = Append(queries, search_query(disk))
    /\ \/ /\ locals' = [locals EXCEPT
                          !.q = Fido_search_result(search_query(disk))]
          /\ pc' = "Fido_fetch"
          /\ UNCHANGED <<rpc, err, returned>>
       \/ /\ Raise("Fido_search", "LibraryError")
          /\ UNCHANGED locals
    /\ UNCHANGED synvars
    /\ UNCHANGED <<args, storage, catalog, reg, wi, ri, disk>>

(* first_record, were an empty result handed on instead of indexed.        *)
first_record_unchecked(q) ==
    IF Len(q) > 0 /\ Len(q[1]) > 0 THEN <<q[1][1]>> ELSE <<NoRec>>

(* q[0, 0]: the first record of the first group; none is <<>>.             *)
first_record(q) ==
    IF Len(q) > 0 /\ Len(q[1]) > 0 THEN <<q[1][1]>> ELSE <<>>

InsertAt(s, i, x) == SubSeq(s, 1, i - 1) \o <<x>> \o SubSeq(s, i, Len(s))

(* The listing after Fido.fetch wrote a file: the download directory is    *)
(* the storage root or another one, a file of that name is replaced, and a *)
(* new file shows at any place of the listing.                             *)
listings_after_download(file) ==
    IF file \in Range(storage)
    THEN {storage}
    ELSE {storage} \cup
         {InsertAt(storage, i, file) : i \in 1..(Len(storage) + 1)}

(* self.raw = sunpy.map.Map(Fido.fetch(q[0, 0]))                           *)
Fido_fetch ==
    /\ pc = "Fido_fetch"
    /\ \/ /\ first_record(locals.q) = <<>>
          /\ Raise("Fido_fetch", "IndexError")
          /\ UNCHANGED <<disk, storage, calls>>
       \/ /\ first_record(locals.q) # <<>>
          /\ calls' = Append(calls, "Fido_fetch")
          /\ \/ /\ disk' = [disk EXCEPT
                              !.raw = Image(first_record(locals.q)[1], <<>>),
                              !.has = @ \cup {"raw"}]
                /\ storage' \in
                       listings_after_download(first_record(locals.q)[1])
                /\ pc' = after_raw(disk)
                /\ UNCHANGED <<rpc, err, returned>>
             \/ /\ Raise("Fido_fetch", "LibraryError")
                /\ UNCHANGED <<disk, storage>>
    /\ UNCHANGED synvars
    /\ UNCHANGED <<args, catalog, reg, wi, ri, locals, queries>>

(* deconvolve, were its failure caught and the acquisition continued.      *)
deconvolve_caught ==
    /\ pc = "deconvolve"
    /\ calls' = Append(calls, "deconvolve")
    /\ \/ /\ disk' = [disk EXCEPT !.psf = Apply("deconvolve", disk.raw),
                                  !.has = @ \cup {"psf"}]
          /\ UNCHANGED err
       \/ /\ err' = [step |-> "deconvolve", exc |-> "LibraryError"]
          /\ disk' = [disk EXCEPT !.psf = disk.raw, !.has = @ \cup {"psf"}]
    /\ pc' = after_fetch(disk)
    /\ UNCHANGED synvars
    /\ UNCHANGED <<args, storage, catalog, reg, rpc, wi, ri, locals, returned,
                   queries>>

(* deconvolve, were the raw image deconvolved in place.                     *)
deconvolve_in_place ==
    /\ pc = "deconvolve"
    /\ calls' = Append(calls, "deconvolve")
    /\ \/ /\ disk' = [disk EXCEPT !.raw = Apply("deconvolve", disk.raw),
                                  !.psf = Apply("deconvolve", disk.raw),
                                  !.has = @ \cup {"psf"}]
          /\ pc' = after_fetch(disk)
          /\ UNCHANGED <<rpc, err, returned>>
       \/ /\ Raise("deconvolve", "LibraryError")
          /\ UNCHANGED disk
    /\ UNCHANGED synvars
    /\ UNCHANGED <<args, storage, catalog, reg, wi, ri, locals, queries>>

(* self.psf = aiapy.psf.deconvolve(self.raw, use_gpu=self.use_gpu)         *)
deconvolve ==
    /\ pc = "deconvolve"
    /\ calls' = Append(calls, "deconvolve")
    /\ \/ /\ disk' = [disk EXCEPT !.psf = Apply("deconvolve", disk.raw),
                                  !.has = @ \cup {"psf"}]
          /\ pc' = after_fetch(disk)
          /\ UNCHANGED <<rpc, err, returned>>
       \/ /\ Raise("deconvolve", "LibraryError")
          /\ UNCHANGED disk
    /\ UNCHANGED synvars
    /\ UNCHANGED <<args, storage, catalog, reg, wi, ri, locals, queries>>

(* normalization_key, were the deconvolved image never picked.             *)
normalization_key_raw(d) == "raw"

(* key = "psf" if self.apply_psf else "raw"                                *)
normalization_key(d) == IF d.apply_psf THEN "psf" ELSE "raw"

(* updated_point = update_pointing(getattr(self, key))                     *)
update_pointing ==
    /\ pc = "update_pointing"
    /\ calls' = Append(calls, "update_pointing")
    /\ \/ /\ locals' = [locals EXCEPT
                          !.key = normalization_key(disk),
                          !.updated_point =
                              Apply("update_pointing",
                                    disk[normalization_key(disk)])]
          /\ pc' = "register"
          /\ UNCHANGED <<rpc, err, returned>>
       \/ /\ Raise("update_pointing", "LibraryError")
          /\ locals' = [locals EXCEPT !.key = normalization_key(disk)]
    /\ UNCHANGED synvars
    /\ UNCHANGED <<args, storage, catalog, reg, wi, ri, disk, queries>>

(* register, were the registration left out of the pipeline.               *)
register_skipped ==
    /\ pc = "register"
    /\ locals' = [locals EXCEPT !.registred = locals.updated_point]
    /\ pc' = "correct_degradation"
    /\ UNCHANGED synvars
    /\ UNCHANGED <<args, storage, catalog, reg, rpc, wi, ri, disk, err,
                   returned, calls, queries>>

(* registred = register(updated_point)                                     *)
register ==
    /\ pc = "register"
    /\ calls' = Append(calls, "register")
    /\ \/ /\ locals' = [locals EXCEPT
                          !.registred = Apply("register", locals.updated_point)]
          /\ pc' = "correct_degradation"
          /\ UNCHANGED <<rpc, err, returned>>
       \/ /\ Raise("register", "LibraryError")
          /\ UNCHANGED locals
    /\ UNCHANGED synvars
    /\ UNCHANGED <<args, storage, catalog, reg, wi, ri, disk, queries>>

(* registred = correct_degradation(registred)                              *)
correct_degradation ==
    /\ pc = "correct_degradation"
    /\ calls' = Append(calls, "correct_degradation")
    /\ \/ /\ locals' = [locals EXCEPT
                          !.registred =
                              Apply("correct_degradation", locals.registred)]
          /\ pc' = "normalize_exposure"
          /\ UNCHANGED <<rpc, err, returned>>
       \/ /\ Raise("correct_degradation", "LibraryError")
          /\ UNCHANGED locals
    /\ UNCHANGED synvars
    /\ UNCHANGED <<args, storage, catalog, reg, wi, ri, disk, queries>>

(* self.normalized = normalize_exposure(registred)                         *)
normalize_exposure ==
    /\ pc = "normalize_exposure"
    /\ calls' = Append(calls, "normalize_exposure")
    /\ \/ /\ disk' = [disk EXCEPT
                        !.normalized =
                            Apply("normalize_exposure", locals.registred),
                        !.has = @ \cup {"normalized"}]
          /\ pc' = "fetch_solar_parameters"
          /\ UNCHANGED <<rpc, err, returned>>
       \/ /\ Raise("normalize_exposure", "LibraryError")
          /\ UNCHANGED disk
    /\ UNCHANGED synvars
    /\ UNCHANGED <<args, storage, catalog, reg, wi, ri, locals, queries>>

(* round(x) of a quotient of positive integers: to the nearest integer, a  *)
(* tie to the even one.                                                    *)
RoundHalfEven(a, b) ==
    LET q == a \div b
        r == a % b
    IN  IF 2 * r < b THEN q
        ELSE IF 2 * r > b THEN q + 1
        ELSE IF q % 2 = 0 THEN q ELSE q + 1

(* pixel_radius_of, were the quotient rounded.                             *)
pixel_radius_rounded(rsun_obs, rscale) == RoundHalfEven(rsun_obs, rscale)

(* int(x) of a quotient of integers: the quotient cut towards zero.        *)
int_quotient(a, b) ==
    IF (a < 0) = (b < 0)
    THEN (IF a < 0 THEN -a ELSE a) \div (IF b < 0 THEN -b ELSE b)
    ELSE -((IF a < 0 THEN -a ELSE a) \div (IF b < 0 THEN -b ELSE b))

(* self.pixel_radius = int(self.rsun_obs / self.rscale)                    *)
pixel_radius_of(rsun_obs, rscale) == int_quotient(rsun_obs, rscale)

(* The header fields read at lines 185-187.                                *)
geometry_fields == {"cdelt2", "r_sun", "rsun_obs"}

(* fetch_solar_parameters, were a header field that is absent read with a  *)
(* default of zero and the radius set all the same.                        *)
fetch_solar_parameters_defaulted ==
    /\ pc = "fetch_solar_parameters"
    /\ calls' = Append(calls, "fetch_solar_parameters")
    /\ disk' = [disk EXCEPT
                  !.pixel_radius =
                      IF /\ geometry_fields \subseteq DOMAIN disk.normalized.hdr
                         /\ disk.normalized.hdr["cdelt2"] # 0
                      THEN pixel_radius_of(disk.normalized.hdr["rsun_obs"],
                                           disk.normalized.hdr["cdelt2"])
                      ELSE 0,
                  !.has = @ \cup {"pixel_radius"}]
    /\ pc' = "done"
    /\ UNCHANGED synvars
    /\ UNCHANGED <<args, storage, catalog, reg, rpc, wi, ri, locals, err,
                   returned, queries>>

(* fetch_solar_parameters, were r_sun read with a default where the header *)
(* has none, and the radius computed from the two other fields.            *)
fetch_solar_parameters_optional_r_sun ==
    /\ pc = "fetch_solar_parameters"
    /\ calls' = Append(calls, "fetch_solar_parameters")
    /\ \/ /\ ~({"cdelt2", "rsun_obs"} \subseteq DOMAIN disk.normalized.hdr)
          /\ Raise("fetch_solar_parameters", "KeyError")
          /\ UNCHANGED disk
       \/ /\ {"cdelt2", "rsun_obs"} \subseteq DOMAIN disk.normalized.hdr
          /\ disk.normalized.hdr["cdelt2"] = 0
          /\ Raise("fetch_solar_parameters", "ZeroDivisionError")
          /\ disk' = [disk EXCEPT
                        !.rscale = disk.normalized.hdr["cdelt2"],
                        !.rsun_obs = disk.normalized.hdr["rsun_obs"],
                        !.has = @ \cup {"rscale", "r_sun", "rsun_obs"}]
       \/ /\ {"cdelt2", "rsun_obs"} \subseteq DOMAIN disk.normalized.hdr
          /\ disk.normalized.hdr["cdelt2"] # 0
          /\ disk' = [disk EXCEPT
                        !.rscale = disk.normalized.hdr["cdelt2"],
                        !.r_sun =
                            IF "r_sun" \in DOMAIN disk.normalized.hdr
                            THEN disk.normalized.hdr["r_sun"]
                            ELSE 0,
                        !.rsun_obs = disk.normalized.hdr["rsun_obs"],
                        !.pixel_radius =
                            pixel_radius_of(disk.normalized.hdr["rsun_obs"],
                                            disk.normalized.hdr["cdelt2"]),
                        !.has = @ \cup {"rscale", "r_sun", "rsun_obs",
                                        "pixel_radius"}]
          /\ pc' = "done"
          /\ UNCHANGED <<rpc, err, returned>>
    /\ UNCHANGED synvars
    /\ UNCHANGED <<args, storage, catalog, reg, wi, ri, locals, queries>>

(* SolarDisk.fetch_solar_parameters: the three reads are evaluated before  *)
(* any attribute is assigned, the division after all three are.            *)
fetch_solar_parameters ==
    /\ pc = "fetch_solar_parameters"
    /\ calls' = Append(calls, "fetch_solar_parameters")
    /\ \/ /\ ~(geometry_fields \subseteq DOMAIN disk.normalized.hdr)
          /\ Raise("fetch_solar_parameters", "KeyError")
          /\ UNCHANGED disk
       \/ /\ geometry_fields \subseteq DOMAIN disk.normalized.hdr
          /\ disk.normalized.hdr["cdelt2"] = 0
          /\ Raise("fetch_solar_parameters", "ZeroDivisionError")
          /\ disk' = [disk EXCEPT
                        !.rscale = disk.normalized.hdr["cdelt2"],
                        !.r_sun = disk.normalized.hdr["r_sun"],
                        !.rsun_obs = disk.normalized.hdr["rsun_obs"],
                        !.has = @ \cup {"rscale", "r_sun", "rsun_obs"}]
       \/ /\ geometry_fields \subseteq DOMAIN disk.normalized.hdr
          /\ disk.normalized.hdr["cdelt2"] # 0
          /\ disk' = [disk EXCEPT
                        !.rscale = disk.normalized.hdr["cdelt2"],
                        !.r_sun = disk.normalized.hdr["r_sun"],
                        !.rsun_obs = disk.normalized.hdr["rsun_obs"],
                        !.pixel_radius =
                            pixel_radius_of(disk.normalized.hdr["rsun_obs"],
                                            disk.normalized.hdr["cdelt2"]),
                        !.has = @ \cup {"rscale", "r_sun", "rsun_obs",
                                        "pixel_radius"}]
          /\ pc' = "done"
          /\ UNCHANGED <<rpc, err, returned>>
    /\ UNCHANGED synvars
    /\ UNCHANGED <<args, storage, catalog, reg, wi, ri, locals, queries>>

(* SolarDisk(...) returns the object to the user.                          *)
SolarDisk_return ==
    /\ rpc = "none"
    /\ pc = "done"
    /\ pc' = "returned"
    /\ returned' = "object"
    /\ UNCHANGED synvars
    /\ UNCHANGED <<args, storage, catalog, reg, rpc, wi, ri, disk, locals,
                   err, calls, queries>>

---------------------------------------------------------------------------
(* RegisterAIA.                                                            *)

(* RegisterAIA.__init__, lines 269-274.                                    *)
RegisterAIA_init ==
    /\ rpc = "new"
    /\ reg' = [wavelengths |-> args.wavelengths, date |-> args.date,
               resolutions |-> args.resolutions,
               apply_psf |-> args.apply_psf, norm |-> args.norm,
               datasets |-> EmptyMap]
    /\ wi' = 1
    /\ rpc' = "outer"
    /\ UNCHANGED synvars
    /\ UNCHANGED <<args, storage, catalog, ri, disk, pc, locals, err,
                   returned, calls, queries>>

(* for wv in wavelengths: self.datasets[wv] = dict(); after the last one   *)
(* __init__ returns.                                                       *)
RegisterAIA_outer ==
    /\ rpc = "outer"
    /\ \/ /\ wi <= Len(args.wavelengths)
          /\ reg' = [reg EXCEPT
                       !.datasets = Put(@, args.wavelengths[wi], EmptyMap)]
          /\ ri' = 1
          /\ rpc' = "inner"
          /\ UNCHANGED returned
       \/ /\ wi > Len(args.wavelengths)
          /\ rpc' = "done"
          /\ returned' = "object"
          /\ UNCHANGED <<reg, ri>>
    /\ UNCHANGED synvars
    /\ UNCHANGED <<args, storage, catalog, wi, disk, pc, locals, err, calls,
                   queries>>

(* for res in resolutions: SolarDisk(self.date, wv, res, ...) is called.   *)
RegisterAIA_inner ==
    /\ rpc = "inner"
    /\ \/ /\ ri <= Len(args.resolutions)
          /\ SolarDisk_init(reg.date, args.wavelengths[wi],
                            args.resolutions[ri], reg.apply_psf, reg.norm,
                            TRUE)
          /\ rpc' = "building"
          /\ UNCHANGED wi
       \/ /\ ri > Len(args.resolutions)
          /\ wi' = wi + 1
          /\ rpc' = "outer"
          /\ UNCHANGED <<disk, pc, locals, calls, queries>>
    /\ UNCHANGED synvars
    /\ UNCHANGED <<args, storage, catalog, reg, ri, err, returned>>

(* RegisterAIA_store, were the dictionary of the wavelength replaced by    *)
(* one holding the new disk alone.                                         *)
RegisterAIA_store_alone ==
    /\ rpc = "building"
    /\ pc = "done"
    /\ reg' = [reg EXCEPT
                 !.datasets[args.wavelengths[wi]] =
                     (args.resolutions[ri] :> disk)]
    /\ ri' = ri + 1
    /\ rpc' = "inner"
    /\ pc' = "idle"
    /\ UNCHANGED synvars
    /\ UNCHANGED <<args, storage, catalog, wi, disk, locals, err, returned,
                   calls, queries>>

(* self.datasets[wv][res] = the SolarDisk just built.                      *)
RegisterAIA_store ==
    /\ rpc = "building"
    /\ pc = "done"
    /\ reg' = [reg EXCEPT
                 !.datasets[args.wavelengths[wi]] =
                     Put(@, args.resolutions[ri], disk)]
    /\ ri' = ri + 1
    /\ rpc' = "inner"
    /\ pc' = "idle"
    /\ UNCHANGED synvars
    /\ UNCHANGED <<args, storage, catalog, wi, disk, locals, err, returned,
                   calls, queries>>

---------------------------------------------------------------------------
(* SynopticMap.                                                            *)

(* carrington_rotation_number(date): the continuous count of rotations at  *)
(* a time, a fraction; 2285.1 is 22851 over 10.                            *)
carrington_rotation_number(date) ==
    [num |-> RotationParts + date, den |-> RotationParts]

(* carrington_rotation_time(n): the time rotation n starts at.             *)
carrington_rotation_time(n) == (n - 1) * RotationParts

(* np_ceil, were the count cut down to the rotation under way.             *)
np_floor(x) == x.num \div x.den

(* np.ceil(x).astype(int): the least integer not below x.                  *)
np_ceil(x) == -((-x.num) \div x.den)

(* if CR_equivalance: None and 0 are both false.                           *)
rotation_supplied(CR_equivalance) ==
    CR_equivalance # None /\ CR_equivalance[1] # 0

(* self.CR_equivalance, lines 312-318.                                     *)
rotation_of(date, CR_equivalance) ==
    IF rotation_supplied(CR_equivalance)
    THEN CR_equivalance[1]
    ELSE np_ceil(carrington_rotation_number(date))

(* self.date, lines 308 and 314.                                           *)
date_of(date, CR_equivalance) ==
    IF rotation_supplied(CR_equivalance)
    THEN carrington_rotation_time(CR_equivalance[1])
    ELSE date

(* SynopticMap.__init__, lines 308-327, up to the call of fetch; the       *)
(* directory of the local files is there once os.makedirs returned.        *)
SynopticMap_init(p, date, CR_equivalance, wavelength) ==
    /\ sargs' = [sargs EXCEPT ![p] =
                     [date |-> date, CR_equivalance |-> CR_equivalance,
                      wavelength |-> wavelength]]
    /\ synoptic' = [synoptic EXCEPT ![p] =
           [date |-> date_of(date, CR_equivalance),
            wavelength |-> wavelength,
            location |-> DefaultLocation,
            CR_equivalance |-> rotation_of(date, CR_equivalance),
            fname |-> file_name_regex_format(
                          wavelength, rotation_of(date, CR_equivalance)),
            remote_file_url |-> base_url_regex_format(
                          wavelength, rotation_of(date, CR_equivalance)),
            local_file |-> local_file_of(
                          DefaultLocation,
                          file_name_regex_format(
                              wavelength, rotation_of(date, CR_equivalance))),
            raw |-> NoRaw,
            has |-> {}]]
    /\ spc' = [spc EXCEPT ![p] = "exists"]
    /\ UNCHANGED <<files, remote, req, serr, steps>>

(* The call came back, with the object or with an exception.               *)
Ended(p) == spc[p] \in {"done", "raised"}

(* A user calls SynopticMap(...) after the calls before it came back.      *)
SynopticMap_call(p) ==
    /\ spc[p] = "idle"
    /\ \A q \in MapCalls : q < p => Ended(q)
    /\ \A q \in MapCalls : q > p => spc[q] = "idle"
    /\ \E date \in SynopticDates, CR_equivalance \in Rotations,
          wavelength \in SynopticWavelengths :
           SynopticMap_init(p, date, CR_equivalance, wavelength)
    /\ UNCHANGED diskvars

(* A user calls SynopticMap(...) while other calls are under way, in       *)
(* another thread or process on the same home directory.                   *)
SynopticMap_call_in_parallel(p) ==
    /\ spc[p] = "idle"
    /\ \E date \in SynopticDates, CR_equivalance \in Rotations,
          wavelength \in SynopticWavelengths :
           SynopticMap_init(p, date, CR_equivalance, wavelength)
    /\ UNCHANGED diskvars

(* An exception leaves fetch and __init__: the call raises.                *)
SynopticRaise(p, step, exc) ==
    /\ spc' = [spc EXCEPT ![p] = "raised"]
    /\ serr' = [serr EXCEPT ![p] = [step |-> step, exc |-> exc]]

(* exists_branch, were the request made whether the file is there or not.  *)
exists_branch_always_get(local_file) == "requests_get"

(* if not os.path.exists(self.local_file): ... ; otherwise straight to the *)
(* parsing.                                                                *)
exists_branch(local_file) ==
    IF local_file \in DOMAIN files THEN "fits_open" ELSE "requests_get"

path_exists(p) ==
    /\ spc[p] = "exists"
    /\ steps' = [steps EXCEPT ![p] = Append(@, "exists")]
    /\ spc' = [spc EXCEPT ![p] = exists_branch(synoptic[p].local_file)]
    /\ UNCHANGED <<files, remote, sargs, synoptic, req, serr>>
    /\ UNCHANGED diskvars

(* What the repository may answer: the file with status 200 when it has    *)
(* it, 404 when it has not, and 503 at any time; the body of an answer     *)
(* that is not a file is a page, no FITS.                                  *)
responses(url) ==
    (IF url \in DOMAIN remote
     THEN {[status_code |-> StatusOK,
            content |-> [fits |-> TRUE, hdr |-> remote[url]]]}
     ELSE {[status_code |-> 404,
            content |-> [fits |-> FALSE, hdr |-> EmptyMap]]})
    \cup {[status_code |-> 503,
           content |-> [fits |-> FALSE, hdr |-> EmptyMap]]}

(* status_branch, were the body written whatever the status.               *)
status_branch_any(response) == "open"

(* if req.status_code == 200: ... ; otherwise straight to the parsing.     *)
status_branch(response) ==
    IF response.status_code = StatusOK THEN "open" ELSE "fits_open"

(* req = requests.get(self.remote_file_url): the whole body is read        *)
(* before the call returns.                                                *)
requests_get(p) ==
    /\ spc[p] = "requests_get"
    /\ steps' = [steps EXCEPT ![p] = Append(@, "requests_get")]
    /\ \/ \E r \in responses(synoptic[p].remote_file_url) :
              /\ req' = [req EXCEPT ![p] = r]
              /\ spc' = [spc EXCEPT ![p] = status_branch(r)]
              /\ UNCHANGED serr
       \/ /\ SynopticRaise(p, "requests_get", "ConnectionError")
          /\ UNCHANGED req
    /\ UNCHANGED <<files, remote, sargs, synoptic>>
    /\ UNCHANGED diskvars

(* with open(self.local_file, "wb") as f: the file is created, or cut to   *)
(* no byte when it is there.                                               *)
open_wb(p) ==
    /\ spc[p] = "open"
    /\ steps' = [steps EXCEPT ![p] = Append(@, "open")]
    /\ \/ /\ files' = Put(files, synoptic[p].local_file,
                           File([fits |-> FALSE, hdr |-> EmptyMap], FALSE))
          /\ spc' = [spc EXCEPT ![p] = "write"]
          /\ UNCHANGED serr
       \/ /\ SynopticRaise(p, "open", "OSError")
          /\ UNCHANGED files
    /\ UNCHANGED <<remote, sargs, synoptic, req>>
    /\ UNCHANGED diskvars

(* What is at the path after a write that did not get to its end: no byte, *)
(* or a part of the body.                                                  *)
after_failed_write(local_file, content) ==
    {Put(files, local_file, File([fits |-> FALSE, hdr |-> EmptyMap], FALSE)),
     Put(files, local_file, File(content, FALSE))}

(* f.write(req.content) and the close of the file; a write that fails or   *)
(* is interrupted leaves what it wrote so far.                             *)
write(p) ==
    /\ spc[p] = "write"
    /\ steps' = [steps EXCEPT ![p] = Append(@, "write")]
    /\ \/ /\ files' = Put(files, synoptic[p].local_file,
                           File(req[p].content, TRUE))
          /\ spc' = [spc EXCEPT ![p] = "fits_open"]
          /\ UNCHANGED serr
       \/ /\ \E exc \in {"OSError", "KeyboardInterrupt"} :
                 SynopticRaise(p, "write", exc)
          /\ files' \in after_failed_write(synoptic[p].local_file,
                                           req[p].content)
    /\ UNCHANGED <<remote, sargs, synoptic, req>>
    /\ UNCHANGED diskvars

(* set_units, were a unit set only where the file has none.                *)
set_units_if_absent(hdr) ==
    hdr @@ ("cunit1" :> "arcsec") @@ ("cunit2" :> "arcsec")

(* header["cunit1"] = "arcsec"; header["cunit2"] = "arcsec"                *)
set_units(hdr) == ("cunit1" :> "arcsec") @@ ("cunit2" :> "arcsec") @@ hdr

(* with astropy.io.fits.open(self.local_file) as hdul: ...; the file is    *)
(* opened to be read, the header changed in memory; verify("fix") changes  *)
(* no value of a card that is modelled.                                    *)
fits_open(p) ==
    /\ spc[p] = "fits_open"
    /\ steps' = [steps EXCEPT ![p] = Append(@, "fits_open")]
    /\ \/ /\ synoptic[p].local_file \notin DOMAIN files
          /\ SynopticRaise(p, "fits_open", "FileNotFoundError")
          /\ UNCHANGED synoptic
       \/ /\ synoptic[p].local_file \in DOMAIN files
          /\ \/ ~files[synoptic[p].local_file].whole
             \/ ~files[synoptic[p].local_file].content.fits
          /\ SynopticRaise(p, "fits_open", "OSError")
          /\ UNCHANGED synoptic
       \/ /\ synoptic[p].local_file \in DOMAIN files
          /\ files[synoptic[p].local_file].whole
          /\ files[synoptic[p].local_file].content.fits
          /\ \/ /\ synoptic' = [synoptic EXCEPT
                      ![p].raw =
                          [hdr |-> set_units(
                               files[synoptic[p].local_file].content.hdr)],
                      ![p].has = @ \cup {"raw"}]
                /\ spc' = [spc EXCEPT ![p] = "done"]
                /\ UNCHANGED serr
             \/ /\ SynopticRaise(p, "fits_open", "LibraryError")
                /\ UNCHANGED synoptic
    /\ UNCHANGED <<files, remote, sargs, req>>
    /\ UNCHANGED diskvars

---------------------------------------------------------------------------
Next ==
    \/ SolarDisk_call
    \/ search_local
    \/ load_local
    \/ Fido_search
    \/ Fido_fetch
    \/ deconvolve
    \/ update_pointing
    \/ register
    \/ correct_degradation
    \/ normalize_exposure
    \/ fetch_solar_parameters
    \/ SolarDisk_return
    \/ RegisterAIA_init
    \/ RegisterAIA_outer
    \/ RegisterAIA_inner
    \/ RegisterAIA_store

Spec == Init /\ [][Next]_vars

(* Calls of SynopticMap(...) one after the other.                          *)
NextSynoptic ==
    \E p \in MapCalls :
        \/ SynopticMap_call(p)
        \/ path_exists(p)
        \/ requests_get(p)
        \/ open_wb(p)
        \/ write(p)
        \/ fits_open(p)

SpecSynoptic == InitSynoptic /\ [][NextSynoptic]_vars

(* Calls of SynopticMap(...) that may run at the same time.                *)
NextParallel ==
    \E p \in MapCalls :
        \/ SynopticMap_call_in_parallel(p)
        \/ path_exists(p)
        \/ requests_get(p)
        \/ open_wb(p)
        \/ write(p)
        \/ fits_open(p)

SpecParallel == InitSynoptic /\ [][NextParallel]_vars

---------------------------------------------------------------------------
(* Notions shared by the properties.                                       *)

StageOrder ==
    <<"update_pointing", "register", "correct_degradation",
      "normalize_exposure">>

IsPrefix(s, t) == Len(s) <= Len(t) /\ s = SubSeq(t, 1, Len(s))

(* The calibration stages among a sequence of operations.                  *)
StageOps(ops) == SelectSeq(ops, LAMBDA o : o \in Range(StageOrder))

(* The stage of an image: what was applied to it last.                     *)
Stage(img) ==
    LET st == StageOps(img.ops)
    IN  IF st = <<>>
        THEN (IF img.ops = <<>> THEN "NONE" ELSE "DECONVOLVED")
        ELSE CASE st[Len(st)] = "update_pointing" -> "POINTED"
               [] st[Len(st)] = "register" -> "REGISTERED"
               [] st[Len(st)] = "correct_degradation" -> "DEGRADATION_CORRECTED"
               [] OTHER -> "NORMALIZED"

(* The image the pipeline of the current disk has got to.                  *)
PipelineImage ==
    IF "normalized" \in disk.has THEN disk.normalized
    ELSE IF locals.registred # NoImage THEN locals.registred
    ELSE IF locals.updated_point # NoImage THEN locals.updated_point
    ELSE IF disk.apply_psf THEN disk.psf ELSE disk.raw

(* SolarDisk(...) came back without raising.                               *)
Acquired == pc \in {"done", "returned"}

(* What a successful acquisition is said to yield.                         *)
NormalizedResult(d) ==
    /\ "normalized" \in d.has
    /\ Stage(d.normalized) = "NORMALIZED"
    /\ {"cdelt2", "rsun_obs"} \subseteq DOMAIN d.normalized.hdr
    /\ "pixel_radius" \in d.has

---------------------------------------------------------------------------
(* C1: in every run of normalization the four calibration stages are       *)
(* called once each in the order pointing update, registration,            *)
(* degradation correction, exposure normalization, each on the output of   *)
(* the one before; the image the pipeline holds has had a prefix of that   *)
(* order applied to it, as long as the stages called, and the normalized   *)
(* image all four, on top of the raw or deconvolved input.                 *)
C1_StageOrder ==
    /\ IsPrefix(StageOps(calls), StageOrder)
    /\ IsPrefix(StageOps(PipelineImage.ops), StageOrder)
    /\ Len(StageOps(PipelineImage.ops)) <= Len(StageOps(calls))
    /\ Len(StageOps(PipelineImage.ops)) >= Len(StageOps(calls)) - 1
    /\ pc # "raised" =>
           Len(StageOps(PipelineImage.ops)) = Len(StageOps(calls))
    /\ locals.updated_point # NoImage =>
           Stage(locals.updated_point) = "POINTED"
    /\ locals.registred # NoImage =>
           \/ locals.registred.ops =
                  Append(locals.updated_point.ops, "register")
           \/ locals.registred.ops =
                  locals.updated_point.ops
                      \o <<"register", "correct_degradation">>
    /\ "normalized" \in disk.has =>
           /\ disk.normalized.ops =
                  locals.updated_point.ops
                      \o <<"register", "correct_degradation",
                           "normalize_exposure">>
           /\ StageOps(disk.normalized.ops) = StageOrder
           /\ Stage(disk.normalized) = "NORMALIZED"

C1_Witness ==
    /\ pc = "done"
    /\ "normalized" \in disk.has
    /\ disk.normalized.ops = <<"deconvolve">> \o StageOrder

(* C2: the local lookup is the first call of an acquisition; it finds      *)
(* nothing exactly when no file of the listing matches, and then gives     *)
(* None without raising; the catalog is queried next exactly when it found *)
(* nothing, and never after a hit.                                         *)
C2_CacheFirst ==
    /\ calls # <<>> => calls[1] = "search_local"
    /\ \A i \in 2..Len(calls) : calls[i] # "search_local"
    /\ err.step # "search_local"
    /\ (Len(calls) >= 1 /\ "Fido_fetch" \notin Range(calls)) =>
           (locals.local_file = <<>>
                <=> ~\E i \in DOMAIN storage :
                        /\ storage[i].instrument = "AIA"
                        /\ storage[i].wavelength = disk.wavelength
                        /\ storage[i].day = disk.date.day)
    /\ (Len(calls) = 1 /\ locals.local_file = <<>>) => pc = "Fido_search"
    /\ Len(calls) >= 2 =>
           (calls[2] = "Fido_search" <=> locals.local_file = <<>>)
    /\ (\E i \in DOMAIN calls : calls[i] \in {"Fido_search", "Fido_fetch"})
           => locals.local_file = <<>>
    /\ queries # <<>> => locals.local_file = <<>>

C2_Witness ==
    /\ locals.local_file = <<>>
    /\ Len(storage) >= 2
    /\ calls = <<"search_local", "Fido_search", "Fido_fetch">>
    /\ "raw" \in disk.has

(* C3 as stated: pixel_radius is the quotient of rsun_obs by cdelt2 of the *)
(* normalized header rounded to the nearest integer.                       *)
C3_Rounded ==
    ("pixel_radius" \in disk.has
        /\ disk.normalized.hdr["rsun_obs"] > 0
        /\ disk.normalized.hdr["cdelt2"] > 0) =>
        disk.pixel_radius =
            RoundHalfEven(disk.normalized.hdr["rsun_obs"],
                          disk.normalized.hdr["cdelt2"])

(* C3 as amended: pixel_radius is that quotient cut to its integer part,   *)
(* the largest integer not above it; 975.0 by 0.6 gives 1625.              *)
C3_Truncated ==
    ("pixel_radius" \in disk.has
        /\ disk.normalized.hdr["rsun_obs"] > 0
        /\ disk.normalized.hdr["cdelt2"] > 0) =>
        /\ disk.pixel_radius * disk.normalized.hdr["cdelt2"]
               <= disk.normalized.hdr["rsun_obs"]
        /\ disk.normalized.hdr["rsun_obs"]
               < (disk.pixel_radius + 1) * disk.normalized.hdr["cdelt2"]
        /\ (disk.normalized.hdr["rsun_obs"] = 9750
               /\ disk.normalized.hdr["cdelt2"] = 6)
               => disk.pixel_radius = 1625

C3_Witness ==
    /\ "pixel_radius" \in disk.has
    /\ disk.normalized.hdr["cdelt2"] > 0
    /\ 2 * (disk.normalized.hdr["rsun_obs"] % disk.normalized.hdr["cdelt2"])
           > disk.normalized.hdr["cdelt2"]

(* C4 as stated: whatever the flags, a construction of SolarDisk for a     *)
(* valid key (a resolution that is a number of pixels) that returns yields *)
(* a normalized image with stage NORMALIZED, a header that holds cdelt2    *)
(* and rsun_obs, and a pixel_radius.                                       *)
C4_AnyFlags ==
    (Acquired /\ disk.desciption[3] > 0) => NormalizedResult(disk)

(* C4 as amended: it does so when norm is set; with norm unset the         *)
(* construction returns with no normalized image and no pixel_radius.      *)
C4_WithNorm ==
    /\ (Acquired /\ disk.norm) => NormalizedResult(disk)
    /\ (Acquired /\ ~disk.norm) =>
           disk.has \cap {"normalized", "pixel_radius"} = {}

C4_Witness ==
    /\ pc = "returned"
    /\ disk.norm
    /\ disk.apply_psf
    /\ ~disk.use_gpu
    /\ disk.desciption[3] = 1024
    /\ NormalizedResult(disk)

(* The pairs the registry holds an entry for.                              *)
EntryPairs ==
    UNION {{<<w, r>> : r \in DOMAIN reg.datasets[w]} :
               w \in DOMAIN reg.datasets}

(* Every pair of the product has its entry, built from that pair at the    *)
(* date and with the flags of the registry, and there is no other entry.   *)
RegistryIsProduct ==
    /\ DOMAIN reg.datasets = Range(reg.wavelengths)
    /\ \A w \in DOMAIN reg.datasets :
           DOMAIN reg.datasets[w] = Range(reg.resolutions)
    /\ \A w \in DOMAIN reg.datasets : \A r \in DOMAIN reg.datasets[w] :
           /\ reg.datasets[w][r].date = reg.date
           /\ reg.datasets[w][r].wavelength = w
           /\ reg.datasets[w][r].desciption = <<reg.date, w, r>>
           /\ r # 0 => reg.datasets[w][r].resolution = r
           /\ reg.datasets[w][r].apply_psf = reg.apply_psf
           /\ reg.datasets[w][r].norm = reg.norm
    /\ Cardinality(EntryPairs) =
           Cardinality(Range(reg.wavelengths))
               * Cardinality(Range(reg.resolutions))
    /\ (reg.wavelengths = <<171, 193>> /\ reg.resolutions = <<1024, 4096>>)
           => Cardinality(EntryPairs) = 4

(* C5 as stated: a registry that was built holds one entry per pair of     *)
(* wavelengths x resolutions and nothing else, and every entry is a        *)
(* normalized result.                                                      *)
C5_AllNormalized ==
    rpc = "done" =>
        /\ RegistryIsProduct
        /\ \A p \in EntryPairs : NormalizedResult(reg.datasets[p[1]][p[2]])

(* C5 as amended: the entries are normalized results when the registry was *)
(* built with norm set; built with norm unset, it holds one entry per pair *)
(* all the same, none of them normalized.                                  *)
C5_NormalizedWhenNorm ==
    rpc = "done" =>
        /\ RegistryIsProduct
        /\ \A p \in EntryPairs :
               IF reg.norm
               THEN NormalizedResult(reg.datasets[p[1]][p[2]])
               ELSE reg.datasets[p[1]][p[2]].has
                        \cap {"normalized", "pixel_radius"} = {}

C5_Witness ==
    /\ rpc = "done"
    /\ returned = "object"
    /\ reg.norm
    /\ reg.wavelengths = <<171, 193>>
    /\ reg.resolutions = <<1024, 4096>>
    /\ Cardinality(EntryPairs) = 4

(* The pairs that come before the pair (wi, ri) in the loops.              *)
PairsBefore ==
    {<<args.wavelengths[i], args.resolutions[j]>> :
         i \in 1..(wi - 1), j \in DOMAIN args.resolutions}
    \cup {<<args.wavelengths[wi], args.resolutions[j]>> : j \in 1..(ri - 1)}

(* C6: when the acquisition of a pair fails while RegisterAIA is built,    *)
(* the build ends at that pair: the user's call raises, nothing runs       *)
(* afterwards, only the pairs before the failing one were ever built, and  *)
(* the user gets a registry only when every pair was built.                *)
C6_Atomic ==
    /\ (args.caller = "RegisterAIA" /\ pc = "raised") => rpc = "raised"
    /\ rpc = "raised" =>
           /\ returned = "exception"
           /\ ~ENABLED Next
           /\ disk.wavelength = args.wavelengths[wi]
           /\ disk.desciption[3] = args.resolutions[ri]
           /\ EntryPairs \subseteq PairsBefore
    /\ (args.caller = "RegisterAIA" /\ returned = "object") =>
           /\ rpc = "done"
           /\ EntryPairs =
                  {<<w, r>> : w \in Range(args.wavelengths),
                              r \in Range(args.resolutions)}

C6_Witness ==
    /\ rpc = "raised"
    /\ returned = "exception"
    /\ wi = 2
    /\ ri = 2
    /\ Cardinality(EntryPairs) = 3

(* C7: deconvolution runs exactly when apply_psf is set, after the raw     *)
(* image is there and before any calibration stage; the first stage is     *)
(* given the deconvolved image when apply_psf is set and the raw image     *)
(* otherwise, and the normalized image descends from that one input.       *)
C7_PipelineInput ==
    /\ ~disk.apply_psf =>
           ("deconvolve" \notin Range(calls) /\ "psf" \notin disk.has)
    /\ \A i \in DOMAIN calls : calls[i] = "deconvolve" =>
           /\ disk.apply_psf
           /\ "raw" \in disk.has
           /\ \E j \in 1..(i - 1) : calls[j] \in {"load_local", "Fido_fetch"}
           /\ \A j \in 1..i : calls[j] \notin Range(StageOrder)
    /\ \A i \in DOMAIN calls :
           (calls[i] = "update_pointing" /\ disk.apply_psf) =>
               /\ "psf" \in disk.has
               /\ \E j \in 1..(i - 1) : calls[j] = "deconvolve"
    /\ "psf" \in disk.has =>
           (disk.psf.file = disk.raw.file /\ disk.psf.ops = <<"deconvolve">>)
    /\ locals.key # "" => locals.key = IF disk.apply_psf THEN "psf" ELSE "raw"
    /\ locals.updated_point # NoImage =>
           locals.updated_point =
               [file |-> disk.raw.file, hdr |-> disk.raw.hdr,
                ops |-> IF disk.apply_psf
                        THEN <<"deconvolve", "update_pointing">>
                        ELSE <<"update_pointing">>]
    /\ "normalized" \in disk.has =>
           /\ disk.normalized.file = disk.raw.file
           /\ disk.normalized.ops =
                  (IF disk.apply_psf THEN <<"deconvolve">> ELSE <<>>)
                      \o StageOrder

C7_Witness ==
    /\ rpc = "building"
    /\ pc = "done"
    /\ disk.apply_psf
    /\ "Fido_fetch" \in Range(calls)
    /\ "psf" \in disk.has
    /\ "normalized" \in disk.has

(* The place of a step in an acquisition.                                  *)
StepRank(step) ==
    CASE step = "search_local" -> 1
      [] step \in {"load_local", "Fido_search"} -> 2
      [] step = "Fido_fetch" -> 3
      [] step = "deconvolve" -> 4
      [] step = "update_pointing" -> 5
      [] step = "register" -> 6
      [] step = "correct_degradation" -> 7
      [] step = "normalize_exposure" -> 8
      [] step = "fetch_solar_parameters" -> 9
      [] OTHER -> 0

(* A failure is never passed over: an exception is recorded exactly when   *)
(* the acquisition has ended and the user's call has raised, no step       *)
(* later than the failing one was run, and nothing runs afterwards.        *)
FirstFailureSurfaced ==
    /\ (err # NoErr) <=> (pc = "raised")
    /\ (pc = "raised") <=> (returned = "exception")
    /\ pc = "raised" =>
           /\ StepRank(err.step) > 0
           /\ \A i \in DOMAIN calls : StepRank(calls[i]) <= StepRank(err.step)
           /\ ~ENABLED Next

(* C8 as stated: a failure of any step, the geometry extraction among      *)
(* them, is surfaced, no later step runs, and neither a normalized image   *)
(* nor a pixel_radius is produced.                                         *)
C8_NothingProduced ==
    /\ FirstFailureSurfaced
    /\ pc = "raised" =>
           disk.has \cap {"normalized", "pixel_radius"} = {}

(* C8 as amended: a failure of any step is surfaced, no later step runs    *)
(* and no pixel_radius is produced; a normalized image is there only when  *)
(* the failing step is the geometry extraction, which runs after the       *)
(* normalized image was assigned.                                          *)
C8_NoPixelRadius ==
    /\ FirstFailureSurfaced
    /\ pc = "raised" =>
           /\ "pixel_radius" \notin disk.has
           /\ "normalized" \in disk.has
                  <=> err.step = "fetch_solar_parameters"

C8_Witness ==
    /\ pc = "raised"
    /\ err = [step |-> "fetch_solar_parameters", exc |-> "KeyError"]
    /\ "normalized" \in disk.has
    /\ "r_sun" \notin DOMAIN disk.normalized.hdr

(* A query answer without a single record.                                 *)
EmptyResult(q) == \A p \in DOMAIN q : q[p] = <<>>

(* The catalog answered the query and the code went on from there.         *)
Answered ==
    /\ "Fido_search" \in Range(calls)
    /\ err.step # "Fido_search"
    /\ pc # "Fido_fetch"

(* The catalog is queried at most once per acquisition.                    *)
QueriedOnce ==
    /\ Len(queries) <= 1
    /\ Cardinality({i \in DOMAIN calls : calls[i] = "Fido_search"}) <= 1

(* C9 as stated: an empty answer of the catalog ends the acquisition with  *)
(* NotFoundError, and the catalog is not queried again.                    *)
C9_NotFoundError ==
    /\ QueriedOnce
    /\ (Answered /\ EmptyResult(locals.q)) =>
           (pc = "raised" /\ err.exc = "NotFoundError")

(* C9 as amended: an empty answer ends the acquisition with the IndexError *)
(* of q[0, 0], before anything is downloaded, and the catalog is not       *)
(* queried again.                                                          *)
C9_IndexError ==
    /\ QueriedOnce
    /\ (Answered /\ EmptyResult(locals.q)) =>
           /\ pc = "raised"
           /\ returned = "exception"
           /\ err = [step |-> "Fido_fetch", exc |-> "IndexError"]
           /\ "Fido_fetch" \notin Range(calls)
           /\ "raw" \notin disk.has

C9_Witness ==
    /\ pc = "raised"
    /\ err.exc = "IndexError"
    /\ Len(locals.q) = 1
    /\ EmptyResult(locals.q)
    /\ Len(queries) = 1

(* The seconds from the start of day 0 to a time.                          *)
Seconds(t) == t.day * 86400 + t.sec

(* What is asked besides the window, and which record is loaded.           *)
QueryAndRecord ==
    /\ \A i \in DOMAIN queries :
           /\ queries[i].instrument = "AIA"
           /\ queries[i].wavemin = disk.wavelength
           /\ queries[i].wavemax = disk.wavelength
    /\ ("Fido_fetch" \in Range(calls) /\ "raw" \in disk.has) =>
           /\ locals.local_file = <<>>
           /\ disk.raw = Image(locals.q[1][1], <<>>)

(* C10 as stated: the window of the query runs from the requested time t   *)
(* to t + 60 s.                                                            *)
C10_WindowFromT ==
    /\ QueryAndRecord
    /\ \A i \in DOMAIN queries :
           /\ queries[i].start = disk.date
           /\ queries[i].end.us = disk.date.us
           /\ queries[i].end.sec < 86400
           /\ Seconds(queries[i].end) = Seconds(disk.date) + 60

(* C10 as amended: the window runs from t cut to the whole second to 60 s  *)
(* after that; the microseconds of t are not part of the query.            *)
C10_WindowFromSecond ==
    /\ QueryAndRecord
    /\ \A i \in DOMAIN queries :
           /\ queries[i].start = [disk.date EXCEPT !.us = 0]
           /\ queries[i].end.us = 0
           /\ queries[i].end.sec < 86400
           /\ Seconds(queries[i].end) = Seconds(disk.date) + 60

C10_Witness ==
    /\ "Fido_fetch" \in Range(calls)
    /\ "raw" \in disk.has
    /\ disk.date.us # 0
    /\ Len(locals.q) >= 2
    /\ Len(locals.q[1]) >= 2

(* A file of the listing fits the pattern of a key.                        *)
MatchesKey(f, d) ==
    /\ f.instrument = "AIA"
    /\ f.wavelength = d.wavelength
    /\ f.day = d.date.day

(* The lookup has just been made and nothing was downloaded since.         *)
JustLookedUp == calls = <<"search_local">>

(* A key like that of d, at another time of the day or resolution.         *)
OtherKey(d, t, r) ==
    [d EXCEPT !.date = t, !.resolution = stored_resolution(r),
              !.desciption = <<t, d.wavelength, r>>]

(* C11: the local lookup gives the first file of the listing whose name    *)
(* holds the wavelength and the day of the key, or None when there is no   *)
(* such file; a key of the same day and wavelength, whatever its time of   *)
(* day and its resolution, gives the same file; the lookup leaves the      *)
(* listing as it was.                                                      *)
C11_DayAndWavelength ==
    /\ [](JustLookedUp =>
            /\ locals.local_file = <<>>
                   <=> ~\E i \in DOMAIN storage : MatchesKey(storage[i], disk)
            /\ \A i \in DOMAIN storage :
                   (/\ MatchesKey(storage[i], disk)
                    /\ \A j \in 1..(i - 1) : ~MatchesKey(storage[j], disk))
                       => locals.local_file = <<storage[i]>>
            /\ \A t \in Dates : \A r \in Range(ResolutionOrder) :
                   t.day = disk.date.day =>
                       search_local_result(OtherKey(disk, t, r))
                           = locals.local_file)
    /\ [][pc = "search_local" => storage' = storage]_vars

C11_Witness ==
    /\ JustLookedUp
    /\ Len(glob(storage, disk.wavelength, disk.date.day)) >= 2
    /\ locals.local_file = <<storage[2]>>
    /\ locals.local_file[1].sec # disk.date.sec
    /\ disk.desciption[3] = 1024

(* The geometry extraction was run on a header that lacks cdelt2 or        *)
(* rsun_obs.                                                               *)
GeometryFieldAbsent ==
    /\ "fetch_solar_parameters" \in Range(calls)
    /\ ~({"cdelt2", "rsun_obs"} \subseteq DOMAIN disk.normalized.hdr)

(* C12 as stated: the geometry extraction fails with                       *)
(* MissingGeometryFieldsError when cdelt2 or rsun_obs is absent from the   *)
(* normalized header, and no pixel_radius is set.                          *)
C12_MissingGeometryFieldsError ==
    GeometryFieldAbsent =>
        /\ pc = "raised"
        /\ err.exc = "MissingGeometryFieldsError"
        /\ "pixel_radius" \notin disk.has

(* C12 as amended: it fails with the KeyError of the header read; no       *)
(* pixel_radius is set, nor any other attribute of the geometry, and the   *)
(* user's call raises.                                                     *)
C12_KeyError ==
    GeometryFieldAbsent =>
        /\ pc = "raised"
        /\ returned = "exception"
        /\ err = [step |-> "fetch_solar_parameters", exc |-> "KeyError"]
        /\ disk.has \cap {"pixel_radius", "rscale", "rsun_obs", "r_sun"} = {}
        /\ disk.pixel_radius = NoDisk.pixel_radius

C12_Witness ==
    /\ pc = "raised"
    /\ err.exc = "KeyError"
    /\ "cdelt2" \notin DOMAIN disk.normalized.hdr
    /\ "rsun_obs" \in DOMAIN disk.normalized.hdr
    /\ "pixel_radius" \notin disk.has

(* The calls of an acquisition that produce its raw image.                 *)
RawCalls == {i \in DOMAIN calls : calls[i] \in {"load_local", "Fido_fetch"}}

(* The step goes on with the object under construction, it does not start  *)
(* the construction of another.                                            *)
SameObject == pc' # "search_local"

(* C20: the raw image of an acquisition is assigned by one call, the load  *)
(* of the local file or the download, and by no second one; it has no      *)
(* operation applied to it; once assigned it stays as it is through the    *)
(* deconvolution, the calibration stages and the geometry extraction, and  *)
(* so does the deconvolved image; their results are other objects; an      *)
(* object the registry holds is not changed by later acquisitions.         *)
C20_RawUnchanged ==
    /\ [](/\ Cardinality(RawCalls) <= 1
          /\ "raw" \in disk.has =>
                 /\ Cardinality(RawCalls) = 1
                 /\ disk.raw.ops = <<>>
                 /\ disk.raw.file \in
                        Range(storage) \cup UNION {Range(catalog[p]) :
                                                      p \in DOMAIN catalog}
          /\ "psf" \in disk.has =>
                 (disk.psf # disk.raw /\ disk.psf.ops = <<"deconvolve">>)
          /\ "normalized" \in disk.has =>
                 (disk.normalized # disk.raw /\ disk.normalized # disk.psf))
    /\ [][("raw" \in disk.has /\ SameObject) =>
              ("raw" \in disk'.has /\ disk'.raw = disk.raw)]_vars
    /\ [][("psf" \in disk.has /\ SameObject) =>
              ("psf" \in disk'.has /\ disk'.psf = disk.psf)]_vars
    /\ [][\A w \in DOMAIN reg.datasets : \A r \in DOMAIN reg.datasets[w] :
              /\ w \in DOMAIN reg'.datasets
              /\ r \in DOMAIN reg'.datasets[w]
              /\ reg'.datasets[w][r] = reg.datasets[w][r]]_vars

C20_Witness ==
    /\ pc = "done"
    /\ {"raw", "psf", "normalized", "pixel_radius"} \subseteq disk.has
    /\ disk.raw.ops = <<>>
    /\ DOMAIN reg.datasets # {}

---------------------------------------------------------------------------
(* Notions shared by the properties of SynopticMap.                        *)

(* The calls of SynopticMap(...) that were made.                           *)
Made == {p \in MapCalls : spc[p] # "idle"}

(* n is the ceiling of the fraction x.                                     *)
IsCeiling(n, x) == (n - 1) * x.den < x.num /\ x.num <= n * x.den

(* The call was handed no rotation that __init__ takes up: its rotation    *)
(* comes from its date.                                                    *)
FromDate(p) == sargs[p].CR_equivalance \in {None, <<0>>}

(* C13: a call that is handed a rotation, whatever integer, has that       *)
(* rotation and the start of that rotation as its date; a call that is     *)
(* handed none has the ceiling of the rotation count of its date, 2286 at  *)
(* the count 2285.1, and keeps its date.                                   *)
C13_SuppliedOrCeiling ==
    \A p \in Made :
        IF sargs[p].CR_equivalance # None
        THEN /\ synoptic[p].CR_equivalance = sargs[p].CR_equivalance[1]
             /\ synoptic[p].date =
                    carrington_rotation_time(sargs[p].CR_equivalance[1])
        ELSE /\ IsCeiling(synoptic[p].CR_equivalance,
                          carrington_rotation_number(sargs[p].date))
             /\ sargs[p].date = 22841 => synoptic[p].CR_equivalance = 2286
             /\ synoptic[p].date = sargs[p].date

(* C14: a call handed the rotation N has the start of N as its date, and a *)
(* call handed that date and no rotation has the rotation N again, hence   *)
(* the same file name and url at the same wavelength.                      *)
C14_RoundTrip ==
    \A p \in Made : sargs[p].CR_equivalance # None =>
        /\ synoptic[p].date =
               carrington_rotation_time(sargs[p].CR_equivalance[1])
        /\ \A q \in Made :
               (/\ sargs[q].CR_equivalance = None
                /\ sargs[q].date = synoptic[p].date
                /\ sargs[q].wavelength = sargs[p].wavelength) =>
                   /\ synoptic[q].CR_equivalance
                          = sargs[p].CR_equivalance[1]
                   /\ synoptic[q].fname = synoptic[p].fname
                   /\ synoptic[q].local_file = synoptic[p].local_file
                   /\ synoptic[q].remote_file_url
                          = synoptic[p].remote_file_url

(* C15 as stated: the date of a call whose rotation N comes from its date  *)
(* lies in the span of N: from the start of N up to the start of N + 1.    *)
C15_InSpanOfChosen ==
    \A p \in Made : FromDate(p) =>
        /\ carrington_rotation_time(synoptic[p].CR_equivalance)
               <= sargs[p].date
        /\ sargs[p].date
               < carrington_rotation_time(synoptic[p].CR_equivalance + 1)

(* C15 as amended: it lies after the start of N - 1 and not after the      *)
(* start of N: N is the first rotation to start at or after the date, and  *)
(* the date is in the span of N only when it is the start of N.            *)
C15_UpToStartOfChosen ==
    \A p \in Made : FromDate(p) =>
        /\ carrington_rotation_time(synoptic[p].CR_equivalance - 1)
               < sargs[p].date
        /\ sargs[p].date
               <= carrington_rotation_time(synoptic[p].CR_equivalance)

C15_Witness ==
    \E p \in Made :
        /\ sargs[p].CR_equivalance = None
        /\ sargs[p].date = 22841
        /\ synoptic[p].CR_equivalance = 2286
        /\ spc[p] = "done"

(* The orders in which fetch does its steps: the parsing comes last, after *)
(* the whole body was received and written when there was a download.      *)
FetchOrders ==
    {<<"exists", "fits_open">>,
     <<"exists", "requests_get", "fits_open">>,
     <<"exists", "requests_get", "open", "write", "fits_open">>}

(* No call was made after the call p.                                      *)
Latest(p) == \A q \in MapCalls : q > p => spc[q] = "idle"

(* The call found no local file and the repository answered with a status  *)
(* that is not 200.                                                        *)
Refused(p) == req[p].status_code \notin {NoReq.status_code, StatusOK}

(* The download comes before any parsing and is whole when the parsing     *)
(* starts.                                                                 *)
DownloadThenParse ==
    \A p \in Made :
        /\ \E o \in FetchOrders : IsPrefix(steps[p], o)
        /\ (spc[p] = "fits_open" /\ "write" \in Range(steps[p])) =>
               /\ Latest(p) =>
                      files[synoptic[p].local_file]
                          = File(req[p].content, TRUE)
               /\ req[p].status_code = StatusOK
               /\ req[p].content =
                      [fits |-> TRUE, hdr |-> remote[synoptic[p].remote_file_url]]

(* C16 as stated: when the local file is absent the body is downloaded in  *)
(* full before the parsing; a status that is not 200 leaves the local file *)
(* absent, the fetch fails with RemoteFetchError and no map is set.        *)
C16_RemoteFetchError ==
    /\ DownloadThenParse
    /\ \A p \in Made : Refused(p) =>
           /\ Latest(p) => synoptic[p].local_file \notin DOMAIN files
           /\ Ended(p) =>
                  /\ spc[p] = "raised"
                  /\ serr[p].exc = "RemoteFetchError"
                  /\ "raw" \notin synoptic[p].has

(* C16 as amended: ...; a status that is not 200 leaves the local file     *)
(* absent, nothing being opened or written at its path, and the fetch      *)
(* fails with the FileNotFoundError of the parsing of the absent file, so  *)
(* no map is set.                                                          *)
C16_FileNotFoundError ==
    /\ DownloadThenParse
    /\ \A p \in Made : Refused(p) =>
           /\ Latest(p) => synoptic[p].local_file \notin DOMAIN files
           /\ Range(steps[p]) \cap {"open", "write"} = {}
           /\ ~Ended(p) => spc[p] = "fits_open"
           /\ Ended(p) =>
                  /\ spc[p] = "raised"
                  /\ serr[p] =
                         [step |-> "fits_open", exc |-> "FileNotFoundError"]
                  /\ "raw" \notin synoptic[p].has
                  /\ synoptic[p].raw = NoRaw

C16_Witness ==
    \E p \in Made :
        /\ req[p].status_code = 404
        /\ spc[p] = "raised"
        /\ serr[p].exc = "FileNotFoundError"
        /\ synoptic[p].local_file \notin DOMAIN files

(* C17: the header of every map that is set has cunit1 and cunit2 at       *)
(* "arcsec" and the other cards of the file, whatever units the file has;  *)
(* the maps of calls with the same wavelength and rotation, made one after *)
(* the other, have the same header, be the file downloaded by the call or  *)
(* found by it.                                                            *)
C17_UnitsRepaired ==
    /\ \A p \in Made : "raw" \in synoptic[p].has =>
           /\ synoptic[p].raw.hdr["cunit1"] = "arcsec"
           /\ synoptic[p].raw.hdr["cunit2"] = "arcsec"
           /\ synoptic[p].local_file \in DOMAIN files
           /\ \A k \in DOMAIN files[synoptic[p].local_file].content.hdr
                      \ {"cunit1", "cunit2"} :
                  /\ k \in DOMAIN synoptic[p].raw.hdr
                  /\ synoptic[p].raw.hdr[k]
                         = files[synoptic[p].local_file].content.hdr[k]
           /\ DOMAIN synoptic[p].raw.hdr =
                  DOMAIN files[synoptic[p].local_file].content.hdr
                      \cup {"cunit1", "cunit2"}
    /\ \A p \in Made : \A q \in Made :
           (/\ "raw" \in synoptic[p].has
            /\ "raw" \in synoptic[q].has
            /\ synoptic[p].wavelength = synoptic[q].wavelength
            /\ synoptic[p].CR_equivalance = synoptic[q].CR_equivalance) =>
               synoptic[p].raw.hdr = synoptic[q].raw.hdr

C17_Witness ==
    \E p \in Made : \E q \in Made :
        /\ p # q
        /\ synoptic[p].local_file = synoptic[q].local_file
        /\ "write" \in Range(steps[p])
        /\ steps[q] = <<"exists", "fits_open">>
        /\ "raw" \in synoptic[p].has
        /\ "raw" \in synoptic[q].has
        /\ files[synoptic[p].local_file].content.hdr = HdrDegrees

(* The calls that opened the file at a path to write it.                   *)
Writers(local_file) ==
    {p \in Made : /\ synoptic[p].local_file = local_file
                  /\ "open" \in Range(steps[p])
                  /\ serr[p].step # "open"}

(* C18: of the calls for the same wavelength and rotation that run at the  *)
(* same time, at most one creates the file at their path: no two of them   *)
(* open it to write.                                                       *)
C18_CreatedOnce ==
    \A p \in Made : Cardinality(Writers(synoptic[p].local_file)) <= 1

(* C19: a file that is at a local path is whole in every state, so a call  *)
(* that finds a file at its path never finds a part of one.                *)
C19_NoPartialFile ==
    /\ \A f \in DOMAIN files : files[f].whole
    /\ \A p \in Made :
           (steps[p] = <<"exists", "fits_open">> /\ spc[p] = "raised") =>
               serr[p].exc # "OSError"

(* The geometry extraction was run on a header that holds cdelt2 and       *)
(* rsun_obs and lacks r_sun.                                               *)
OnlyRSunAbsent ==
    /\ "fetch_solar_parameters" \in Range(calls)
    /\ {"cdelt2", "rsun_obs"} \subseteq DOMAIN disk.normalized.hdr
    /\ "r_sun" \notin DOMAIN disk.normalized.hdr

(* C21 as stated: r_sun is not needed for the geometry: on a normalized    *)
(* header that holds cdelt2 and rsun_obs and lacks r_sun the geometry      *)
(* extraction succeeds and sets pixel_radius.                              *)
C21_RSunNotRequired ==
    OnlyRSunAbsent =>
        /\ pc \in {"done", "returned", "idle"}
        /\ err = NoErr
        /\ "pixel_radius" \in disk.has

(* C21 as amended: r_sun is read along with the two other fields and is    *)
(* required: on such a header the geometry extraction fails with the       *)
(* KeyError of the header read and sets no pixel_radius, though the        *)
(* quotient of rsun_obs by cdelt2 does not need r_sun.                     *)
C21_RSunRequired ==
    OnlyRSunAbsent =>
        /\ pc = "raised"
        /\ returned = "exception"
        /\ err = [step |-> "fetch_solar_parameters", exc |-> "KeyError"]
        /\ disk.has \cap {"pixel_radius", "rscale", "rsun_obs", "r_sun"} = {}

C21_Witness ==
    /\ OnlyRSunAbsent
    /\ pc = "raised"
    /\ disk.normalized.hdr["cdelt2"] # 0
    /\ disk.wavelength = 171
    /\ disk.raw.file.sec = 100

(* A disk with its resolution left out: what the acquisition produced.     *)
WithoutResolution(d) ==
    [d EXCEPT !.resolution = DefaultResolution,
              !.desciption = <<d.date, d.wavelength, DefaultResolution>>]

(* The disks of the registry built for one wavelength.                     *)
DisksOf(wv) == {reg.datasets[wv][r] : r \in DOMAIN reg.datasets[wv]}

(* C22: the resolution of a key has no influence on the acquired data: a   *)
(* key that differs from the one of the acquisition in its resolution      *)
(* alone gives the same lookup, the same query and the same steps, and the *)
(* disks a registry built for one wavelength at several resolutions have   *)
(* the same raw image, normalized image and pixel_radius; a resolution     *)
(* that is missing or zero is stored as 4096, any other as it is.          *)
C22_ResolutionIgnored ==
    /\ pc # "idle" =>
           /\ disk.desciption[3] = 0 => disk.resolution = 4096
           /\ disk.desciption[3] # 0 => disk.resolution = disk.desciption[3]
           /\ \A r \in Range(ResolutionOrder) :
                  /\ JustLookedUp =>
                         search_local_result(OtherKey(disk, disk.date, r))
                             = locals.local_file
                  /\ \A i \in DOMAIN queries :
                         queries[i]
                             = search_query(OtherKey(disk, disk.date, r))
                  /\ after_raw(OtherKey(disk, disk.date, r)) = after_raw(disk)
                  /\ normalization_key(OtherKey(disk, disk.date, r))
                         = normalization_key(disk)
    /\ \A wv \in DOMAIN reg.datasets :
           \A a, b \in DisksOf(wv) : WithoutResolution(a) = WithoutResolution(b)

C22_Witness ==
    /\ rpc = "done"
    /\ \E wv \in DOMAIN reg.datasets :
           /\ {1024, 4096} \subseteq DOMAIN reg.datasets[wv]
           /\ reg.datasets[wv][1024].resolution = 1024
           /\ reg.datasets[wv][4096].resolution = 4096
           /\ reg.datasets[wv][1024].raw = reg.datasets[wv][4096].raw
           /\ reg.datasets[wv][1024].raw # NoImage
           /\ "pixel_radius" \in reg.datasets[wv][1024].has
           /\ reg.datasets[wv][1024].raw.file \notin Range(storage)

(* The call p takes a step of its fetch.                                   *)
StepOf(p) == steps'[p] # steps[p]

(* The file at the path of the call p is there and p did not create it.    *)
FoundLocal(p) ==
    /\ synoptic[p].local_file \in DOMAIN files
    /\ "open" \notin Range(steps[p])

(* The calls for a path that were answered with the remote file.           *)
Downloaders(local_file) ==
    {p \in Made : /\ synoptic[p].local_file = local_file
                  /\ req[p].status_code = StatusOK}

(* A call that finds the file at its path goes to the parsing with no      *)
(* request, and its steps leave the files and the answers as they are: the *)
(* units are set in the header of the map alone.                           *)
CacheFirst ==
    /\ [](\A p \in Made :
             (Len(steps[p]) >= 2 /\ steps[p][2] = "fits_open") =>
                 /\ req[p] = NoReq
                 /\ steps[p] = <<"exists", "fits_open">>)
    /\ [][\A p \in MapCalls :
             (StepOf(p) /\ FoundLocal(p)) =>
                 /\ files' = files
                 /\ req' = req
                 /\ remote' = remote
                 /\ spc[p] = "exists" => spc'[p] = "fits_open"
                 /\ "requests_get" \notin Range(steps'[p])]_vars

(* C23 as stated: the fetch is cache-first: a file that is at the local    *)
(* path is parsed with no request and is left as it is on disk; over the   *)
(* calls for one wavelength and rotation, made one after the other, the    *)
(* remote file is downloaded at most once.                                 *)
C23_DownloadedOnce ==
    /\ CacheFirst
    /\ [](\A p \in Made :
             Cardinality(Downloaders(synoptic[p].local_file)) <= 1)

(* C23 as amended: ...; over the calls for one wavelength and rotation,    *)
(* made one after the other, the remote file is written to the local path  *)
(* at most once and no request is made once a file is at the path; it is   *)
(* downloaded again only by a call that finds no file there, an earlier    *)
(* download not having been stored.                                        *)
C23_StoredOnce ==
    /\ CacheFirst
    /\ [](\A p \in Made :
             /\ Cardinality(Writers(synoptic[p].local_file)) <= 1
             /\ \A q \in Made :
                    (/\ p < q
                     /\ synoptic[p].local_file = synoptic[q].local_file
                     /\ req[q] # NoReq) =>
                        /\ p \notin Writers(synoptic[p].local_file)
                        /\ "fits_open" \in Range(steps[p]) =>
                               serr[p].exc = "FileNotFoundError")

C23_Witness ==
    \E p \in Made : \E q \in Made :
        /\ p < q
        /\ synoptic[p].local_file = synoptic[q].local_file
        /\ Downloaders(synoptic[p].local_file) = {p}
        /\ Writers(synoptic[p].local_file) = {p}
        /\ req[q] = NoReq
        /\ spc[q] = "done"
        /\ files[synoptic[q].local_file] = File(req[p].content, TRUE)
        /\ req[p].content.hdr = HdrNoUnits
        /\ synoptic[q].raw.hdr = set_units(HdrNoUnits)

====
